---- MODULE Spec2Model ----
(***************************************************************************)
(* Advent of Code 2024, day 6: a guard walks a grid, turning clockwise at  *)
(* obstructions (src/d6.py and its threaded / sub-interpreter variants).   *)
(* Part 1 collects the cells of the unobstructed walk; part 2 counts the   *)
(* visited cells whose obstruction makes has_loop(pairwise(walk(...)))     *)
(* answer True.                                                            *)
(***************************************************************************)
EXTENDS Integers, Sequences, FiniteSets, TLC

\* ------------------------------------------------------------------ bounds
\* Grid size, number of obstructions, size of the worker pool, number of
\* candidates of a search; number and length of the lines of an input text.
Rows == 4
Cols == 3
MaxObst == 3
MaxWorkers == 2
MaxTasks == 2
MaxLines == 2
MaxLineLen == 2

\* ------------------------------------------------------- directions, turn
up == 0
right == 1
down == 2
left == 3

turn_ccw(d) == (d + 3) % 4

turn(d) == (d + 1) % 4

\* ------------------------------------------------------------------ state
VARIABLES
    tiles,        \* grid.tiles: the set of obstructed cells
    gstart,       \* grid.start
    nrows,        \* len(grid.tiles): ranges.rows is range(nrows)
    ncols,        \* len(grid.tiles[0]): ranges.cols is range(ncols)
    rlines,       \* __main__: the lines read_lines yields, not yet consumed by from_lines
    obstruction,  \* walk's obstruction argument (NoObstruction for None)
    pc,           \* "start", "walking", "done": where has_loop(pairwise(walk)) is
    wstart,       \* walk's local variable start (origin of the current ray)
    direction,    \* walk's local variable direction
    idx,          \* index of the next pair of pairwise(ranges.walk(start, direction))
    last,         \* the position pairwise(walk(...)) holds as previous element
    visited,      \* has_loop's visited set
    result,       \* has_loop's return value, meaningful when pc = "done"
    exited,       \* TRUE when walk returned (the agent left the grid)
    emitted,      \* the positions walk has yielded so far, in order
    entries,      \* for each yielded move: the cell entered and the direction of travel
    frames,       \* thread pool: each thread's own walk and loops frames
    \* Executor (src/subinterpreters/d6.py)
    nworkers,     \* Executor.workers
    mainpc,       \* where the caller of Executor.map is
    path,         \* __main__: path = set(walk(grid, start))
    todo,         \* the nodes the candidates generator has still to produce
    tasks,        \* Executor.tasks: the queue of requests and sentinels
    results,      \* Executor.results: the queue of (success, res) records
    wpc,          \* each worker thread's position
    wreq,         \* each worker's req
    nstarted,     \* threads started so far by map
    ntasks,       \* map's local counter tasks
    got,          \* results yielded so far by get_results._iter
    count,        \* the running sum of the caller: sum(1 for res in ... if res)
    error,        \* the InterpreterError being raised ("" for none)
    nsent,        \* sentinels put so far by the finally block
    dispatched,   \* the sequence of nodes put on the task queue, in order
    taken,        \* per node: how many times a worker received it
    recorded,     \* per node: how many result records were put for it
    raisedOn      \* the nodes whose evaluation raised an exception

wvars == <<obstruction, pc, wstart, direction, idx, last,
           visited, result, exited, emitted, entries>>

evars == <<nworkers, mainpc, path, todo, tasks, results, wpc, wreq, nstarted, ntasks,
           got, count, error, nsent, dispatched, taken, recorded, raisedOn>>

vars == <<tiles, gstart, nrows, ncols, rlines, wvars, frames, evars>>

\* --------------------------------------------------------------- the grid
\* A position is <<row, col>>.  None (no virtual obstruction) is modelled by
\* a pair that equals no position of any grid.
NoObstruction == <<-1, -1>>

RowRange == 0 .. (Rows - 1)
ColRange == 0 .. (Cols - 1)
Cells == RowRange \X ColRange

\* range(n)[from::-1] and range(n)[from::1] for 0 <= from < n, as sequences.
SliceDownOver(n, from) == [i \in 1 .. (from + 2) |-> from - (i - 1)]

SliceDown(n, from) == [i \in 1 .. (from + 1) |-> from - (i - 1)]

SliceUpShort(n, from) == [i \in 1 .. (n - from - 1) |-> from + (i - 1)]

SliceUp(n, from) == [i \in 1 .. (n - from) |-> from + (i - 1)]

\* Ranges.walk(self, start, direction) with self.rows = range(nr) and
\* self.cols = range(nc): the ray of cells from start (included) to the edge
\* of the grid.
RangesWalkOf(nr, nc, s, d) ==
    CASE d = 0 -> [i \in DOMAIN SliceDown(nr, s[1]) |-> <<SliceDown(nr, s[1])[i], s[2]>>]
      [] d = 2 -> [i \in DOMAIN SliceUp(nr, s[1]) |-> <<SliceUp(nr, s[1])[i], s[2]>>]
      [] d = 3 -> [i \in DOMAIN SliceDown(nc, s[2]) |-> <<s[1], SliceDown(nc, s[2])[i]>>]
      [] d = 1 -> [i \in DOMAIN SliceUp(nc, s[2]) |-> <<s[1], SliceUp(nc, s[2])[i]>>]

\* Ranges.walk on a grid of Rows x Cols cells.
RangesWalk(s, d) == RangesWalkOf(Rows, Cols, s, d)

\* The test of walk's inner loop: grid[curr] or curr == obstruction.
BlockedNoVirtual(t, o, curr) == curr \in t

Blocked(t, o, curr) == curr \in t \/ curr = o

\* The element has_loop receives for a step: itertools.pairwise over the
\* emitted positions gives the edge (previous position, position).
PositionOnly(prev, curr) == <<curr, curr>>

PairwiseElem(prev, curr) == <<prev, curr>>

\* has_loop(pairwise(walk(grid, o))) run to its end from the walker state
\* (s, d, i) with pairwise holding prev, has_loop holding seen, and cells the
\* set of positions yielded so far.  kind is "True" or "False" (the value
\* returned) or "Hang": after four successive turns with nothing yielded the
\* walker is back in the same (start, direction) and turns forever.
RECURSIVE Run(_, _, _, _, _, _, _, _, _)
Run(t, o, s, d, i, prev, seen, cells, turns) ==
    LET ray == RangesWalk(s, d) IN
    IF i + 1 > Len(ray)
      THEN [kind |-> "False", cells |-> cells]
      ELSE LET p == ray[i]
               c == ray[i + 1]
           IN IF Blocked(t, o, c)
                THEN IF turns = 3
                       THEN [kind |-> "Hang", cells |-> cells]
                       ELSE Run(t, o, p, turn(d), 1, prev, seen, cells, turns + 1)
                ELSE IF PairwiseElem(prev, c) \in seen
                       THEN [kind |-> "True", cells |-> cells \cup {c}]
                       ELSE Run(t, o, s, d, i + 1, c, seen \cup {PairwiseElem(prev, c)},
                                cells \cup {c}, 0)

\* loops(pairwise(walk(grid, start, obstruction))) as one evaluation.
Solve(t, st, o) == Run(t, o, st, up, 1, st, {}, {st}, 0).kind

\* Pass 1 returns: set(walk(grid)) is built only when the walk leaves the grid.
Pass1Returns(t, st) == Solve(t, st, NoObstruction) = "False"

\* path = set(walk(grid)), for a grid whose unobstructed walk leaves the grid.
Path(t, st) == Run(t, NoObstruction, st, up, 1, st, {}, {st}, 0).cells

\* candidates = (node for node in path if node != grid.start)
CandidatesWithStart(t, st) == Path(t, st)

CandidatesOffStartRow(t, st) == {node \in Path(t, st) : node[1] # st[1]}

Candidates(t, st) == {node \in Path(t, st) : node # st}

\* Grids of Rows x Cols cells with at most MaxObst obstructions.
RECURSIVE UpTo(_)
UpTo(k) == IF k = 0 THEN {{}}
           ELSE LET smaller == UpTo(k - 1)
                IN smaller \cup {t \cup {c} : t \in smaller, c \in Cells}

Grids == UpTo(MaxObst)

\* One evaluation has_loop(pairwise(walk(grid, obstruction))): any grid, any
\* start on a free cell, and for obstruction what the program passes: None,
\* or a candidate (a cell of path other than the start, once pass 1 returned).
InitWalk ==
    /\ nrows = Rows
    /\ ncols = Cols
    /\ tiles \in Grids
    /\ gstart \in Cells \ tiles
    /\ rlines = <<>>
    /\ obstruction \in {NoObstruction} \cup
                        (IF Pass1Returns(tiles, gstart) THEN Candidates(tiles, gstart) ELSE {})
    /\ pc = "start"
    /\ wstart = gstart
    /\ direction = up
    /\ idx = 1
    /\ last = gstart
    /\ visited = {}
    /\ result = FALSE
    /\ exited = FALSE
    /\ emitted = <<>>
    /\ entries = <<>>
    /\ frames = <<>>
    /\ nworkers = 0
    /\ mainpc = "none"
    /\ path = {}
    /\ todo = {}
    /\ tasks = <<>>
    /\ results = <<>>
    /\ wpc = <<>>
    /\ wreq = <<>>
    /\ nstarted = 0
    /\ ntasks = 0
    /\ got = 0
    /\ count = 0
    /\ error = ""
    /\ nsent = 0
    /\ dispatched = <<>>
    /\ taken = <<>>
    /\ recorded = <<>>
    /\ raisedOn = {}

Ray == RangesWalkOf(nrows, ncols, wstart, direction)
HasPair == idx + 1 <= Len(Ray)
Prev == Ray[idx]
Curr == Ray[idx + 1]

BeginSkipsStart ==
    /\ pc = "start"
    /\ pc' = "walking"
    /\ emitted' = <<>>
    /\ last' = gstart
    /\ UNCHANGED <<tiles, gstart, nrows, ncols, rlines, obstruction, wstart, direction, idx, visited,
                   result, exited, entries, frames, evars>>

\* walk: direction = up; start = grid.start; yield start.  pairwise keeps the
\* first element and hands nothing to has_loop yet.
Begin ==
    /\ pc = "start"
    /\ pc' = "walking"
    /\ emitted' = <<gstart>>
    /\ last' = gstart
    /\ UNCHANGED <<tiles, gstart, nrows, ncols, rlines, obstruction, wstart, direction, idx, visited,
                   result, exited, entries, frames, evars>>

TurnReemits ==
    /\ pc = "walking"
    /\ HasPair
    /\ Blocked(tiles, obstruction, Curr)
    /\ direction' = turn(direction)
    /\ wstart' = Prev
    /\ idx' = 1
    /\ emitted' = Append(emitted, Prev)
    /\ UNCHANGED <<tiles, gstart, nrows, ncols, rlines, obstruction, pc, last, visited, result, exited,
                   entries, frames, evars>>

\* walk: the next cell is blocked: direction = turn(direction); start = prev; break.
Turn ==
    /\ pc = "walking"
    /\ HasPair
    /\ Blocked(tiles, obstruction, Curr)
    /\ direction' = turn(direction)
    /\ wstart' = Prev
    /\ idx' = 1
    /\ UNCHANGED <<tiles, gstart, nrows, ncols, rlines, obstruction, pc, last, visited, result, exited,
                   emitted, entries, frames, evars>>

EmitAddFirst ==
    /\ pc = "walking"
    /\ HasPair
    /\ ~Blocked(tiles, obstruction, Curr)
    /\ emitted' = Append(emitted, Curr)
    /\ entries' = Append(entries, <<Curr, direction>>)
    /\ last' = Curr
    /\ idx' = idx + 1
    /\ visited' = visited \cup {PairwiseElem(last, Curr)}
    /\ pc' = "done"
    /\ result' = TRUE
    /\ UNCHANGED <<tiles, gstart, nrows, ncols, rlines, obstruction, wstart, direction, exited, frames, evars>>

EmitNoCheck ==
    /\ pc = "walking"
    /\ HasPair
    /\ ~Blocked(tiles, obstruction, Curr)
    /\ emitted' = Append(emitted, Curr)
    /\ entries' = Append(entries, <<Curr, direction>>)
    /\ last' = Curr
    /\ idx' = idx + 1
    /\ visited' = visited \cup {<<last, Curr, Len(emitted)>>}
    /\ pc' = "walking"
    /\ result' = result
    /\ UNCHANGED <<tiles, gstart, nrows, ncols, rlines, obstruction, wstart, direction, exited, frames, evars>>

\* walk: yield curr.  pairwise yields (last, curr) and has_loop tests it.
Emit ==
    /\ pc = "walking"
    /\ HasPair
    /\ ~Blocked(tiles, obstruction, Curr)
    /\ emitted' = Append(emitted, Curr)
    /\ entries' = Append(entries, <<Curr, direction>>)
    /\ last' = Curr
    /\ idx' = idx + 1
    /\ IF PairwiseElem(last, Curr) \in visited
          THEN /\ pc' = "done"
               /\ result' = TRUE
               /\ visited' = visited
          ELSE /\ pc' = "walking"
               /\ result' = result
               /\ visited' = visited \cup {PairwiseElem(last, Curr)}
    /\ UNCHANGED <<tiles, gstart, nrows, ncols, rlines, obstruction, wstart, direction, exited, frames, evars>>

\* walk: the ray is exhausted (for ... else: return); has_loop returns False.
Exit ==
    /\ pc = "walking"
    /\ ~HasPair
    /\ pc' = "done"
    /\ result' = FALSE
    /\ exited' = TRUE
    /\ UNCHANGED <<tiles, gstart, nrows, ncols, rlines, obstruction, wstart, direction, idx, last,
                   visited, emitted, entries, frames, evars>>

NextWalk == Begin \/ Turn \/ Emit \/ Exit

SpecWalk == InitWalk /\ [][NextWalk]_vars

\* The generators run in one thread: whenever has_loop can take a step it does.
FairWalk == SpecWalk /\ WF_vars(NextWalk)

\* ----------------------------------------------------- properties of the walk
\* The neighbour of cell p in direction d, by arithmetic on the coordinates.
Ahead(p, d) ==
    CASE d = up -> <<p[1] - 1, p[2]>>
      [] d = right -> <<p[1], p[2] + 1>>
      [] d = down -> <<p[1] + 1, p[2]>>
      [] d = left -> <<p[1], p[2] - 1>>

Clockwise == (up :> right) @@ (right :> down) @@ (down :> left) @@ (left :> up)

\* C1: has_loop(pairwise(walk(grid, start, candidate))) returns True only when
\* the move just yielded enters a cell with the direction of travel of an
\* earlier entry of that cell (a repeated (position, direction) state), and
\* it returns False whenever the agent leaves the grid.
C1_DirectionSensitive ==
    /\ (pc = "done" /\ result) =>
          /\ ~exited
          /\ \E i \in 1 .. (Len(entries) - 1) : entries[i] = entries[Len(entries)]
    /\ (pc = "done" /\ exited) => ~result

C1_Witness ==
    /\ pc = "done"
    /\ result
    /\ Len(entries) >= 3
    /\ obstruction # NoObstruction

\* C2: at every step of walk with a next cell in the current direction: if
\* that cell is obstructed or is the virtual obstruction it is not emitted,
\* the direction becomes its clockwise successor ((d + 1) mod 4) and the walk
\* resumes from the last emitted cell; otherwise the cell is emitted, the
\* agent advances to it and the direction is unchanged.
C2_TurnOrAdvance ==
    [][(pc = "walking" /\ Ahead(last, direction) \in Cells) =>
         IF Ahead(last, direction) \in tiles \/ Ahead(last, direction) = obstruction
           THEN /\ emitted' = emitted
                /\ last' = last
                /\ direction' = Clockwise[direction]
                /\ direction' = (direction + 1) % 4
                /\ RangesWalk(wstart', direction')[idx'] = last
           ELSE /\ emitted' = Append(emitted, Ahead(last, direction))
                /\ last' = Ahead(last, direction)
                /\ direction' = direction]_vars

C2_Witness ==
    /\ pc = "walking"
    /\ Len(emitted) >= 3
    /\ direction = left
    /\ last \notin {emitted[i] : i \in 1 .. (Len(emitted) - 1)}
    /\ Ahead(last, down) = obstruction

\* C3: every position walk emits is inside the grid, is not an obstructed
\* cell and is not the virtual obstruction (which differs from the start).
C3_EmittedFree ==
    \A i \in 1 .. Len(emitted) :
        /\ emitted[i] \in Cells
        /\ emitted[i] \notin tiles
        /\ emitted[i] # obstruction

C3_Witness ==
    /\ obstruction \in Cells \ tiles
    /\ pc = "walking"
    /\ direction = right
    /\ Ahead(wstart, up) = obstruction
    /\ idx >= 2
    /\ Len(emitted) >= 3

\* C4: for every grid, start and candidate obstruction the evaluation
\* has_loop(pairwise(walk(grid, start, candidate))) terminates.
C4_Terminates == <>(pc = "done")

\* The cell p lies on the edge of the grid that direction d leads to.
OnEdge(p, d) ==
    CASE d = up -> p[1] = 0
      [] d = right -> p[2] = ncols - 1
      [] d = down -> p[1] = nrows - 1
      [] d = left -> p[2] = 0

\* The cells ahead of the start in the initial direction, up to the edge.
CellsAhead == {<<r, gstart[2]>> : r \in 0 .. (gstart[1] - 1)}

\* C14: walk returns only by leaving the grid: while it runs, its ray is
\* exhausted exactly when the last emitted position is on the grid edge in
\* the current direction; when it has returned, the final emitted position
\* is on that edge; and with nothing obstructed ahead of the start, walk
\* goes straight up, one cell per step, and returns at row 0.
C14_ExitsOnEdge ==
    /\ pc = "walking" =>
          /\ last = emitted[Len(emitted)]
          /\ ~HasPair <=> OnEdge(last, direction)
          /\ ~HasPair <=> Ahead(last, direction) \notin Cells
    /\ exited =>
          /\ pc = "done"
          /\ OnEdge(emitted[Len(emitted)], direction)
          /\ Ahead(emitted[Len(emitted)], direction) \notin Cells
    /\ (pc # "start" /\ \A c \in CellsAhead : ~Blocked(tiles, obstruction, c)) =>
          /\ direction = up
          /\ Len(emitted) <= gstart[1] + 1
          /\ \A i \in DOMAIN emitted : emitted[i] = <<gstart[1] - (i - 1), gstart[2]>>
          /\ pc = "walking" => ENABLED (Emit \/ Exit)
          /\ pc = "done" => (exited /\ Len(emitted) = gstart[1] + 1)

C14_Witness ==
    /\ exited
    /\ direction = down
    /\ emitted[Len(emitted)][1] = Rows - 1
    /\ Len(emitted) >= 4
    /\ obstruction # NoObstruction

\* C15: with the start in row 0 and no obstruction in the grid, walk emits
\* the start and nothing else: its first ray has no second cell, so it
\* returns on its first step, and has_loop returns False having seen nothing.
C15_EdgeStart ==
    (tiles = {} /\ gstart[1] = 0 /\ pc # "start") =>
        /\ emitted = <<gstart>>
        /\ entries = <<>>
        /\ visited = {}
        /\ direction = up
        /\ pc = "walking" => (~HasPair /\ ENABLED Exit /\ ~ENABLED Emit /\ ~ENABLED Turn)
        /\ pc = "done" => (exited /\ ~result)

C15_Witness ==
    /\ tiles = {}
    /\ gstart[1] = 0
    /\ gstart[2] = 1
    /\ pc = "done"
    /\ exited

\* The i-th element has_loop receives: the i-th pair of pairwise(walk(...)).
Edge(i) == <<emitted[i], emitted[i + 1]>>

\* C17: has_loop returns True at the first element equal to an element seen
\* before (the n - 1 elements before it are pairwise distinct: they make a
\* set of n - 1) and nothing is consumed after it; it returns False only
\* when the stream has ended, and then all its elements are pairwise
\* distinct; until it returns, visited holds exactly the elements consumed.
C17_ShortCircuit ==
    LET n == Len(emitted) - 1 IN
    /\ (pc = "done" /\ result) =>
          /\ Edge(n) \in visited
          /\ visited = {Edge(i) : i \in 1 .. (n - 1)}
          /\ Cardinality(visited) = n - 1
          /\ ~exited
          /\ ~ENABLED NextWalk
    /\ (pc = "done" /\ ~result) =>
          /\ exited
          /\ visited = {Edge(i) : i \in 1 .. n}
          /\ Cardinality(visited) = n
    /\ pc = "walking" =>
          /\ visited = {Edge(i) : i \in 1 .. n}
          /\ Cardinality(visited) = n
          /\ ~result

C17_Witness ==
    /\ pc = "done"
    /\ result
    /\ Len(emitted) >= 4
    /\ Edge(Len(emitted) - 1) = Edge(1)
    /\ HasPair

\* C18: the visited set of a loop check never holds more than
\* 4 * rows * cols elements.
C18_VisitedBound == Cardinality(visited) <= 4 * nrows * ncols

C18_Witness ==
    /\ pc = "walking"
    /\ Cardinality(visited) >= 5
    /\ \E i, j \in DOMAIN emitted : i < j /\ emitted[i] = emitted[j]

\* C23: any two consecutive positions walk emits are distinct and differ by
\* exactly 1 in exactly one coordinate, also when the agent turned between
\* them (a turn emits nothing, so the cell it turned on is not emitted
\* again); so the edge pairwise hands to has_loop fixes the direction of
\* travel: exactly one direction leads from its first cell to its second,
\* the one the agent moved in.  Stated on each step that emits, after the
\* first: the sequence grows by one position b next to its last position a.
C23_ConsecutiveAdjacent ==
    [][/\ (emitted' # emitted /\ emitted # <<>>) =>
             LET a == emitted[Len(emitted)]
                 b == emitted'[Len(emitted')]
                 dr == b[1] - a[1]
                 dc == b[2] - a[2]
             IN /\ emitted' = Append(emitted, b)
                /\ b # a
                /\ \/ (dr \in {-1, 1} /\ dc = 0)
                   \/ (dr = 0 /\ dc \in {-1, 1})
                /\ {d \in {up, right, down, left} : Ahead(a, d) = b} = {direction}
                /\ visited' \ visited \subseteq {<<a, b>>}
       /\ direction' # direction => emitted' = emitted]_vars

C23_Witness ==
    /\ pc = "walking"
    /\ Len(emitted) >= 3
    /\ Len(entries) = Len(emitted) - 1
    /\ entries[Len(entries)][2] # entries[Len(entries) - 1][2]
    /\ emitted[Len(emitted)] # emitted[Len(emitted) - 2]
    /\ emitted[Len(emitted) - 1] = wstart
    /\ Edge(Len(emitted) - 1) \in visited

\* ------------------------------------------------ Executor (sub-interpreters)
\* tasks.put(None): the sentinel.  A request is the pair (start, node).
Sentinel == <<>>

Workers == 1 .. nworkers

\* The grids the search is run on: the start marker at (1, 1), obstructions
\* among its eight neighbours, an unobstructed walk that leaves the grid
\* (path = set(walk(grid)) returns) and at most MaxTasks candidates.  What the
\* search does with a grid depends on the path and on what each candidate's
\* evaluation does; of the grids that agree on both, those that have an
\* obstruction the guard never meets are left out.
StartCell == <<1, 1>>
Around == {c \in Cells : c # StartCell /\ c[1] \in 0 .. 2 /\ c[2] \in 0 .. 2}
Outcomes(t, st) == [c \in Candidates(t, st) |-> Solve(t, st, c)]
Signature(t, st) == <<Pass1Returns(t, st), Path(t, st), Outcomes(t, st)>>
ExecGrids ==
    {t \in Grids : /\ t \subseteq Around
                   /\ Pass1Returns(t, StartCell)
                   /\ Cardinality(Candidates(t, StartCell)) <= MaxTasks
                   /\ \A x \in t : Signature(t \ {x}, StartCell) # Signature(t, StartCell)}

InitExec ==
    /\ nrows = Rows
    /\ ncols = Cols
    /\ tiles \in ExecGrids
    /\ gstart = StartCell
    /\ rlines = <<>>
    /\ nworkers \in 1 .. MaxWorkers
    /\ mainpc = "start_threads"
    /\ path = Path(tiles, gstart)
    /\ todo = Candidates(tiles, gstart)
    /\ tasks = <<>>
    /\ results = <<>>
    /\ wpc = [w \in 1 .. nworkers |-> "unstarted"]
    /\ wreq = [w \in 1 .. nworkers |-> Sentinel]
    /\ nstarted = 0
    /\ ntasks = 0
    /\ got = 0
    /\ count = 0
    /\ error = ""
    /\ nsent = 0
    /\ dispatched = <<>>
    /\ taken = [c \in path |-> 0]
    /\ recorded = [c \in path |-> 0]
    /\ raisedOn = {}
    /\ obstruction = NoObstruction
    /\ pc = "none"
    /\ wstart = gstart
    /\ direction = up
    /\ idx = 1
    /\ last = gstart
    /\ visited = {}
    /\ result = FALSE
    /\ exited = FALSE
    /\ emitted = <<>>
    /\ entries = <<>>
    /\ frames = <<>>

\* map: for thread in threads: thread.start()
StartThread ==
    /\ mainpc = "start_threads"
    /\ nstarted < nworkers
    /\ nstarted' = nstarted + 1
    /\ wpc' = [wpc EXCEPT ![nstarted + 1] = "setup"]
    /\ mainpc' = IF nstarted + 1 = nworkers THEN "dispatch" ELSE "start_threads"
    /\ UNCHANGED <<tiles, gstart, nrows, ncols, rlines, wvars, frames, nworkers, path, todo, tasks, results, wreq, ntasks,
                   got, count, error, nsent, dispatched, taken, recorded, raisedOn>>

\* map: for elem in its: tasks += 1; self.tasks.put(elem).  The candidates
\* generator walks the set path in an order the program does not fix.
Dispatch ==
    /\ mainpc = "dispatch"
    /\ \E node \in todo :
          /\ todo' = todo \ {node}
          /\ ntasks' = ntasks + 1
          /\ tasks' = Append(tasks, <<gstart, node>>)
          /\ dispatched' = Append(dispatched, node)
    /\ UNCHANGED <<tiles, gstart, nrows, ncols, rlines, wvars, frames, nworkers, path, mainpc, results, wpc, wreq, nstarted,
                   got, count, error, nsent, taken, recorded, raisedOn>>

\* map: its is exhausted; with self.get_results(tasks) as results: ...
EnterResults ==
    /\ mainpc = "dispatch"
    /\ todo = {}
    /\ mainpc' = IF ntasks = 0 THEN "finally" ELSE "collect"
    /\ UNCHANGED <<tiles, gstart, nrows, ncols, rlines, wvars, frames, nworkers, path, todo, tasks, results, wpc, wreq,
                   nstarted, ntasks, got, count, error, nsent, dispatched, taken,
                   recorded, raisedOn>>

ReceiveSkipFailure ==
    /\ mainpc = "collect"
    /\ got < ntasks
    /\ results # <<>>
    /\ results' = Tail(results)
    /\ got' = got + 1
    /\ count' = count + (IF Head(results).ok /\ Head(results).val = "True" THEN 1 ELSE 0)
    /\ error' = error
    /\ mainpc' = IF got + 1 = ntasks THEN "finally" ELSE "collect"
    /\ UNCHANGED <<tiles, gstart, nrows, ncols, rlines, wvars, frames, nworkers, path, todo, tasks, wpc, wreq, nstarted,
                   ntasks, nsent, dispatched, taken, recorded, raisedOn>>

ReceiveCountAll ==
    /\ mainpc = "collect"
    /\ got < ntasks
    /\ results # <<>>
    /\ results' = Tail(results)
    /\ got' = got + 1
    /\ count' = count + 1
    /\ error' = error
    /\ mainpc' = IF got + 1 = ntasks THEN "finally" ELSE "collect"
    /\ UNCHANGED <<tiles, gstart, nrows, ncols, rlines, wvars, frames, nworkers, path, todo, tasks, wpc, wreq, nstarted,
                   ntasks, nsent, dispatched, taken, recorded, raisedOn>>

\* get_results._iter: one round of for _ in range(expected), with the caller's
\* sum(1 for res in ... if res) consuming what is yielded.
Receive ==
    /\ mainpc = "collect"
    /\ got < ntasks
    /\ results # <<>>
    /\ results' = Tail(results)
    /\ IF Head(results).ok
          THEN /\ got' = got + 1
               /\ count' = count + (IF Head(results).val = "True" THEN 1 ELSE 0)
               /\ error' = error
               /\ mainpc' = IF got + 1 = ntasks THEN "finally" ELSE "collect"
          ELSE /\ error' = Head(results).val
               /\ mainpc' = "finally"
               /\ UNCHANGED <<got, count>>
    /\ UNCHANGED <<tiles, gstart, nrows, ncols, rlines, wvars, frames, nworkers, path, todo, tasks, wpc, wreq, nstarted,
                   ntasks, nsent, dispatched, taken, recorded, raisedOn>>

\* get_results: finally: for _ in range(self.workers): self.tasks.put(None).
\* After the last one the InterpreterError, if any, goes on to the caller;
\* otherwise map goes on to join the threads.
PutSentinel ==
    /\ mainpc = "finally"
    /\ nsent < nworkers
    /\ nsent' = nsent + 1
    /\ tasks' = Append(tasks, Sentinel)
    /\ mainpc' = IF nsent + 1 < nworkers THEN "finally"
                 ELSE IF error # "" THEN "raised" ELSE "join"
    /\ UNCHANGED <<tiles, gstart, nrows, ncols, rlines, wvars, frames, nworkers, path, todo, results, wpc, wreq, nstarted,
                   ntasks, got, count, error, dispatched, taken, recorded, raisedOn>>

\* map: for t in threads: t.join(); then the caller prints the sum.
Join ==
    /\ mainpc = "join"
    /\ \A w \in Workers : wpc[w] \in {"done", "crashed"}
    /\ mainpc' = "reported"
    /\ UNCHANGED <<tiles, gstart, nrows, ncols, rlines, wvars, frames, nworkers, path, todo, tasks, results, wpc, wreq,
                   nstarted, ntasks, got, count, error, nsent, dispatched, taken,
                   recorded, raisedOn>>

\* worker: interpreters.create(); prepare_main; the head of self.code (the
\* imports and the two queues) runs and the loop is reached.
Setup(w) ==
    /\ wpc[w] = "setup"
    /\ wpc' = [wpc EXCEPT ![w] = "idle"]
    /\ UNCHANGED <<tiles, gstart, nrows, ncols, rlines, wvars, frames, nworkers, path, mainpc, todo, tasks, results, wreq,
                   nstarted, ntasks, got, count, error, nsent, dispatched, taken,
                   recorded, raisedOn>>

\* worker: the interpreter fails before the loop (create, prepare_main or the
\* import raises).  Nothing catches it: the thread ends.
SetupFails(w) ==
    /\ wpc[w] = "setup"
    /\ wpc' = [wpc EXCEPT ![w] = "crashed"]
    /\ UNCHANGED <<tiles, gstart, nrows, ncols, rlines, wvars, frames, nworkers, path, mainpc, todo, tasks, results, wreq,
                   nstarted, ntasks, got, count, error, nsent, dispatched, taken,
                   recorded, raisedOn>>

\* code: req = tasks.get(); if req is None: break
Get(w) ==
    /\ wpc[w] = "idle"
    /\ tasks # <<>>
    /\ tasks' = Tail(tasks)
    /\ IF Head(tasks) = Sentinel
          THEN /\ wpc' = [wpc EXCEPT ![w] = "done"]
               /\ UNCHANGED <<wreq, taken>>
          ELSE /\ wpc' = [wpc EXCEPT ![w] = "eval"]
               /\ wreq' = [wreq EXCEPT ![w] = Head(tasks)]
               /\ taken' = [taken EXCEPT ![Head(tasks)[2]] = @ + 1]
    /\ UNCHANGED <<tiles, gstart, nrows, ncols, rlines, wvars, frames, nworkers, path, mainpc, todo, results, nstarted,
                   ntasks, got, count, error, nsent, dispatched, recorded, raisedOn>>

\* code: res = entrypoint(*req, grid=grid); results.put((True, res)).  An
\* evaluation that never returns takes no step.
Eval(w) ==
    /\ wpc[w] = "eval"
    /\ LET res == Solve(tiles, wreq[w][1], wreq[w][2]) IN
          /\ res # "Hang"
          /\ results' = Append(results, [ok |-> TRUE, val |-> res])
    /\ recorded' = [recorded EXCEPT ![wreq[w][2]] = @ + 1]
    /\ wpc' = [wpc EXCEPT ![w] = "idle"]
    /\ UNCHANGED <<tiles, gstart, nrows, ncols, rlines, wvars, frames, nworkers, path, mainpc, todo, tasks, wreq, nstarted,
                   ntasks, got, count, error, nsent, dispatched, taken, raisedOn>>

\* code: except Exception as e: results.put((False, repr(e)))
EvalRaises(w) ==
    /\ wpc[w] = "eval"
    /\ results' = Append(results, [ok |-> FALSE, val |-> "Exception"])
    /\ recorded' = [recorded EXCEPT ![wreq[w][2]] = @ + 1]
    /\ raisedOn' = raisedOn \cup {wreq[w][2]}
    /\ wpc' = [wpc EXCEPT ![w] = "idle"]
    /\ UNCHANGED <<tiles, gstart, nrows, ncols, rlines, wvars, frames, nworkers, path, mainpc, todo, tasks, wreq, nstarted,
                   ntasks, got, count, error, nsent, dispatched, taken>>

\* code: results.put((True, res)) raises (the else branch is outside the try):
\* the interpreter's exec fails and the thread ends with nothing put.
PutFails(w) ==
    /\ wpc[w] = "eval"
    /\ Solve(tiles, wreq[w][1], wreq[w][2]) # "Hang"
    /\ wpc' = [wpc EXCEPT ![w] = "crashed"]
    /\ UNCHANGED <<tiles, gstart, nrows, ncols, rlines, wvars, frames, nworkers, path, mainpc, todo, tasks, results, wreq,
                   nstarted, ntasks, got, count, error, nsent, dispatched, taken,
                   recorded, raisedOn>>

MainNext == StartThread \/ Dispatch \/ EnterResults \/ Receive \/ PutSentinel \/ Join

WorkerNext(w) == Setup(w) \/ SetupFails(w) \/ Get(w) \/ Eval(w) \/ EvalRaises(w) \/ PutFails(w)

NextExec == MainNext \/ (\E w \in Workers : WorkerNext(w))

SpecExec == InitExec /\ [][NextExec]_vars

\* The search as the program runs it when nothing fails: no exception in an
\* evaluation, no interpreter that breaks.
NextSearch == MainNext \/ (\E w \in Workers : Setup(w) \/ Get(w) \/ Eval(w))

SpecSearch == InitExec /\ [][NextSearch]_vars

\* ------------------------------------------------- properties of the search
\* The sequential search of src/d6.py:
\* sum(1 for node in candidates if has_loop(pairwise(walk(grid, node)))).
SeqCount(t, st) == Cardinality({node \in Candidates(t, st) : Solve(t, st, node) = "True"})

Range(q) == {q[i] : i \in DOMAIN q}

\* Nothing can happen any more: every thread is blocked or has ended.
Quiescent == ~ENABLED NextExec

SearchQuiescent == ~ENABLED NextSearch

\* C5: whatever the number of workers and the interleaving, the count the
\* search reports is the count of the sequential search.
C5_ParallelInvariance ==
    mainpc = "reported" => count = SeqCount(tiles, gstart)

C5_Witness ==
    /\ mainpc = "reported"
    /\ nworkers = MaxWorkers
    /\ count >= 1
    /\ ntasks >= 2
    /\ \A w \in Workers : wpc[w] = "done"

\* C6: when a candidate's evaluation raised, no count is reported; on
\* receiving a (False, description) record the Executor raises
\* InterpreterError(description) without counting a result for it, and the
\* error reaches the caller once the sentinels are put.
C6_FaultPropagates ==
    [][/\ (mainpc = "collect" /\ results # <<>> /\ ~Head(results).ok
            /\ results' = Tail(results))
          => (error' = Head(results).val /\ mainpc' = "finally"
              /\ got' = got /\ count' = count)
       /\ raisedOn' # {} => mainpc' # "reported"
       /\ error' # "" => (mainpc' \in {"finally", "raised"} /\ count' = count)
       /\ (error' # "" /\ mainpc' = "finally") => nsent' < nworkers]_vars

C6_Witness ==
    /\ mainpc = "raised"
    /\ error = "Exception"
    /\ got >= 1
    /\ raisedOn # {}

\* C7: every dispatched candidate is taken by exactly one worker and is in
\* the end accounted for by exactly one result record, and the count is
\* reported only after all of them have been collected.
C7_JoinBarrier ==
    /\ \A c \in DOMAIN taken : taken[c] <= 1 /\ recorded[c] <= taken[c]
    /\ mainpc = "reported" => (got = ntasks /\ ntasks = Len(dispatched))
    /\ SearchQuiescent => \A c \in Range(dispatched) : taken[c] = 1 /\ recorded[c] = 1

\* C8: one sentinel per worker is put on the task queue, after all tasks, on
\* every way out of result collection; a worker that takes a sentinel takes
\* nothing after it, and in the end every worker has terminated.
C8_SentinelShutdown ==
    /\ nsent <= nworkers
    /\ \A i, j \in DOMAIN tasks : (i < j /\ tasks[i] = Sentinel) => tasks[j] = Sentinel
    /\ nsent > 0 => todo = {}
    /\ mainpc \in {"join", "raised", "reported"} => nsent = nworkers
    /\ Cardinality({w \in Workers : wpc[w] = "done"})
         = nsent - Cardinality({i \in DOMAIN tasks : tasks[i] = Sentinel})
    /\ SearchQuiescent => \A w \in Workers : wpc[w] = "done"

\* C9: when a worker has crashed, the caller is not left waiting: the fault
\* is reported to it (InterpreterError).
C9_CrashSurfaced ==
    (Quiescent /\ \E w \in Workers : wpc[w] = "crashed") => mainpc = "raised"

\* C10: every candidate dispatched is a cell of the pass-1 walk other than
\* the start, each such cell is dispatched exactly once, and no evaluation
\* is given the start cell as its obstruction.
C10_CandidateEnumeration ==
    /\ mainpc \in {"start_threads", "dispatch"} =>
          (path = Path(tiles, gstart) /\ todo \cup Range(dispatched) = path \ {gstart})
    /\ \A i \in DOMAIN dispatched :
          /\ dispatched[i] \in path
          /\ dispatched[i] # gstart
          /\ \A j \in DOMAIN dispatched : dispatched[j] = dispatched[i] => j = i
    /\ mainpc \notin {"start_threads", "dispatch"} =>
          Range(dispatched) = path \ {gstart}
    /\ \A w \in Workers :
          wpc[w] = "eval" => (wreq[w][1] = gstart /\ wreq[w][2] # gstart
                              /\ wreq[w][2] \in path)

C10_Witness ==
    /\ mainpc = "collect"
    /\ Len(dispatched) = 2
    /\ \A w \in Workers : wpc[w] = "eval"
    /\ nworkers = 2

\* ------------------------------------- the sequential program (src/d6.py)
\* Grid.from_lines on lines given as sequences of characters: start is the
\* coordinate of the last "^" met, tiles[r][c] is char == "#", and the ranges
\* are range(len(tiles)) and range(len(tiles[0])).  ok is FALSE when
\* assert start is not None fails.
Positions(lines) == UNION {{<<r, c>> : c \in DOMAIN lines[r]} : r \in DOMAIN lines}

FromLines(lines) ==
    LET marks == {q \in Positions(lines) : lines[q[1]][q[2]] = "^"}
        lastm == CHOOSE q \in marks :
                     \A m \in marks : m[1] < q[1] \/ (m[1] = q[1] /\ m[2] <= q[2])
        walls == {q \in Positions(lines) : lines[q[1]][q[2]] = "#"}
    IN IF marks = {}
         THEN [ok |-> FALSE]
         ELSE [ok |-> TRUE,
               start |-> <<lastm[1] - 1, lastm[2] - 1>>,
               tiles |-> {<<q[1] - 1, q[2] - 1>> : q \in walls},
               nrows |-> Len(lines),
               ncols |-> Len(lines[1])]

\* The grids the program is run on: the start marker at (1, 1); a grid whose
\* unobstructed walk leaves has at most MaxObst obstructions and at most
\* MaxTasks candidates; a grid whose walk never leaves has at most MaxObst + 1.
SeqGrids ==
    {t \in Grids : /\ StartCell \notin t
                   /\ Pass1Returns(t, StartCell)
                   /\ Cardinality(Candidates(t, StartCell)) <= MaxTasks}
    \cup {t \in UpTo(MaxObst + 1) : StartCell \notin t /\ ~Pass1Returns(t, StartCell)}

\* The state when path = set(walk(grid)) starts, the grid constructed.
SeqStart ==
    /\ mainpc = "pass1"
    /\ path = {}
    /\ todo = {}
    /\ count = 0
    /\ obstruction = NoObstruction
    /\ pc = "none"
    /\ wstart = gstart
    /\ direction = up
    /\ idx = 1
    /\ last = gstart
    /\ visited = {}
    /\ result = FALSE
    /\ exited = FALSE
    /\ emitted = <<>>
    /\ entries = <<>>
    /\ frames = <<>>
    /\ nworkers = 0
    /\ tasks = <<>>
    /\ results = <<>>
    /\ wpc = <<>>
    /\ wreq = <<>>
    /\ nstarted = 0
    /\ ntasks = 0
    /\ got = 0
    /\ error = ""
    /\ nsent = 0
    /\ dispatched = <<>>
    /\ taken = <<>>
    /\ recorded = <<>>
    /\ raisedOn = {}

InitSeq ==
    /\ nrows = Rows
    /\ ncols = Cols
    /\ tiles \in SeqGrids
    /\ gstart = StartCell
    /\ rlines = <<>>
    /\ SeqStart

\* What the main program leaves alone while a walk runs.
seqkeep == <<nworkers, tasks, results, wpc, wreq, nstarted, ntasks, got, error, nsent,
             dispatched, taken, recorded, raisedOn, frames>>

\* path = set(walk(grid)): walk yields start and set() adds it.
Pass1Begin ==
    /\ mainpc = "pass1"
    /\ pc = "none"
    /\ pc' = "collecting"
    /\ path' = {gstart}
    /\ UNCHANGED <<tiles, gstart, nrows, ncols, rlines, obstruction, wstart, direction, idx, last,
                   visited, result, exited, emitted, entries, mainpc, todo, count, seqkeep>>

\* walk under set(): direction = turn(direction); start = prev; break.
Pass1Turn ==
    /\ pc = "collecting"
    /\ HasPair
    /\ Blocked(tiles, obstruction, Curr)
    /\ direction' = turn(direction)
    /\ wstart' = Prev
    /\ idx' = 1
    /\ UNCHANGED <<tiles, gstart, nrows, ncols, rlines, obstruction, pc, last, visited, result,
                   exited, emitted, entries, mainpc, path, todo, count, seqkeep>>

\* walk under set(): yield curr, and set() adds it.  Nothing tests a repeat.
Pass1Emit ==
    /\ pc = "collecting"
    /\ HasPair
    /\ ~Blocked(tiles, obstruction, Curr)
    /\ path' = path \cup {Curr}
    /\ idx' = idx + 1
    /\ UNCHANGED <<tiles, gstart, nrows, ncols, rlines, obstruction, pc, wstart, direction, last,
                   visited, result, exited, emitted, entries, mainpc, todo, count, seqkeep>>

\* walk returns, set() returns; part1 is printed and the candidates generator
\* is made.
Pass1Exit ==
    /\ pc = "collecting"
    /\ ~HasPair
    /\ pc' = "none"
    /\ mainpc' = "pass2"
    /\ todo' = {node \in path : node # gstart}
    /\ UNCHANGED <<tiles, gstart, nrows, ncols, rlines, obstruction, wstart, direction, idx, last,
                   visited, result, exited, emitted, entries, path, count, seqkeep>>

\* sum(1 for node in candidates if has_loop(pairwise(walk(grid, node)))): the
\* generator hands over its next node (one of nodes) and the generators of
\* the evaluation are made: walk's direction = up, start = grid.start,
\* has_loop's visited = set().
NextCandidate(nodes) ==
    /\ mainpc = "pass2"
    /\ pc = "none"
    /\ \E node \in nodes :
          /\ todo' = todo \ {node}
          /\ obstruction' = node
    /\ pc' = "start"
    /\ wstart' = gstart
    /\ direction' = up
    /\ idx' = 1
    /\ last' = gstart
    /\ visited' = {}
    /\ result' = FALSE
    /\ exited' = FALSE
    /\ emitted' = <<>>
    /\ entries' = <<>>
    /\ UNCHANGED <<tiles, gstart, nrows, ncols, rlines, mainpc, path, count, seqkeep>>

TallyAll ==
    /\ mainpc = "pass2"
    /\ pc = "done"
    /\ count' = count + 1
    /\ pc' = "none"
    /\ UNCHANGED <<tiles, gstart, nrows, ncols, rlines, obstruction, wstart, direction, idx, last,
                   visited, result, exited, emitted, entries, mainpc, path, todo, seqkeep>>

\* has_loop returned: the sum takes 1 if it returned True.
Tally ==
    /\ mainpc = "pass2"
    /\ pc = "done"
    /\ count' = count + (IF result THEN 1 ELSE 0)
    /\ pc' = "none"
    /\ UNCHANGED <<tiles, gstart, nrows, ncols, rlines, obstruction, wstart, direction, idx, last,
                   visited, result, exited, emitted, entries, mainpc, path, todo, seqkeep>>

\* The candidates are exhausted: part2 is printed.
Finish ==
    /\ mainpc = "pass2"
    /\ pc = "none"
    /\ todo = {}
    /\ mainpc' = "finished"
    /\ UNCHANGED <<tiles, gstart, nrows, ncols, rlines, wvars, frames, path, todo, count, nworkers,
                   tasks, results, wpc, wreq, nstarted, ntasks, got, error, nsent,
                   dispatched, taken, recorded, raisedOn>>

\* The order in which the generator walks the set path is not fixed by the
\* program: any node not yet produced may be next.
NextSeq ==
    \/ Pass1Begin \/ Pass1Turn \/ Pass1Emit \/ Pass1Exit
    \/ NextCandidate(todo) \/ Begin \/ Turn \/ Emit \/ Exit \/ Tally \/ Finish

SpecSeq == InitSeq /\ [][NextSeq]_vars

\* One thread runs the program: whenever it can take a step it does.
FairSeq == SpecSeq /\ WF_vars(NextSeq)

\* C19: pass 1 and every candidate evaluation of pass 2 terminate on every
\* grid, also on one the agent never leaves: the program reaches its end.
C19_ConsumersTerminate == <>(mainpc = "finished")

\* ------------------------------------------------ the day-6 sample (10 x 10)
SampleLines ==
    <<<<".", ".", ".", ".", "#", ".", ".", ".", ".", ".">>,
      <<".", ".", ".", ".", ".", ".", ".", ".", ".", "#">>,
      <<".", ".", ".", ".", ".", ".", ".", ".", ".", ".">>,
      <<".", ".", "#", ".", ".", ".", ".", ".", ".", ".">>,
      <<".", ".", ".", ".", ".", ".", ".", "#", ".", ".">>,
      <<".", ".", ".", ".", ".", ".", ".", ".", ".", ".">>,
      <<".", "#", ".", ".", "^", ".", ".", ".", ".", ".">>,
      <<".", ".", ".", ".", ".", ".", ".", ".", "#", ".">>,
      <<"#", ".", ".", ".", ".", ".", ".", ".", ".", ".">>,
      <<".", ".", ".", ".", ".", ".", "#", ".", ".", ".">>>>

\* The sample with its start marker moved to row 0, column 4.
SampleLinesMarkerTop ==
    [SampleLines EXCEPT ![7] = [@ EXCEPT ![5] = "."], ![1] = [@ EXCEPT ![5] = "^"]]

InitSample ==
    /\ \E lines \in {SampleLines, SampleLinesMarkerTop} :
          /\ FromLines(lines).ok
          /\ tiles = FromLines(lines).tiles
          /\ gstart = FromLines(lines).start
          /\ nrows = FromLines(lines).nrows
          /\ ncols = FromLines(lines).ncols
    /\ rlines = <<>>
    /\ SeqStart

\* The sample's cells are taken in row-major order (the sum does not depend
\* on the order).
FirstNode(nodes) ==
    CHOOSE n \in nodes : \A m \in nodes : n[1] < m[1] \/ (n[1] = m[1] /\ n[2] <= m[2])

NextSample ==
    \/ Pass1Begin \/ Pass1Turn \/ Pass1Emit \/ Pass1Exit
    \/ (todo # {} /\ NextCandidate({FirstNode(todo)}))
    \/ Begin \/ Turn \/ Emit \/ Exit \/ Tally \/ Finish

SpecSample == InitSample /\ [][NextSample]_vars

\* C12: on the day-6 sample, a 10 x 10 grid with 8 obstructions and its start
\* marker at row 6, column 4, pass 1 visits 41 distinct cells and pass 2
\* counts 6 candidates that make the agent loop.
C12_SampleCounts ==
    (gstart = <<6, 4>>) =>
        /\ nrows = 10 /\ ncols = 10 /\ Cardinality(tiles) = 8
        /\ mainpc # "pass1" => Cardinality(path) = 41
        /\ mainpc = "finished" => count = 6

C12_Witness ==
    /\ gstart = <<6, 4>>
    /\ mainpc = "finished"
    /\ Cardinality(path) = 41
    /\ count = 6
    /\ todo = {}

\* C12 as stated: on the 10 x 10 sample with its start marker at (0, 4),
\* pass 1 visits 41 cells and pass 2 counts 6.
C12_AsStated ==
    (gstart = <<0, 4>> /\ nrows = 10 /\ ncols = 10) =>
        /\ mainpc # "pass1" => Cardinality(path) = 41
        /\ mainpc = "finished" => count = 6

\* ------------------------------------------- thread pool (src/d6_threads.py)
\* executor.map(lambda node: loops(pairwise(walk(grid, node))), candidates):
\* each thread of the pool runs one call at a time, on a node no other call
\* was given.  A call has its own generator frame for walk (start, direction,
\* the position in the ray), its own pairwise (last) and its own frame for
\* loops (visited); the threads share grid only.
Threads == DOMAIN frames

IdleFrame == [pc |-> "idle", node |-> NoObstruction, start |-> gstart, direction |-> up,
              idx |-> 1, last |-> gstart, visited |-> {}, result |-> FALSE,
              emitted |-> <<gstart>>]

\* walk: the ray is taken from the call's own start and direction.
FrameRayShared(f) == RangesWalkOf(nrows, ncols, f.start, frames[1].direction)

FrameRay(f) == RangesWalkOf(nrows, ncols, f.start, f.direction)
FrameHasPair(f) == f.idx + 1 <= Len(FrameRay(f))
FramePrev(f) == FrameRay(f)[f.idx]
FrameCurr(f) == FrameRay(f)[f.idx + 1]

\* loops: the set the call tests and fills is its local variable visited.
VisitedPooled(w) == UNION {frames[v].visited : v \in Threads}

VisitedOf(w) == frames[w].visited

\* The grids the pool is run on: the start marker in the bottom row, an
\* unobstructed walk that leaves the grid (path = set(walk(grid)) returns), at
\* most MaxTasks + 1 candidates, fewer than MaxObst obstructions, and none
\* that could be taken away without a change of the path or of a candidate's
\* result.
PoolStart == <<Rows - 1, 1>>
PoolGrids ==
    {t \in UpTo(MaxObst - 1) : /\ PoolStart \notin t
                   /\ Pass1Returns(t, PoolStart)
                   /\ Cardinality(Candidates(t, PoolStart)) <= MaxTasks + 1
                   /\ \A x \in t : Signature(t \ {x}, PoolStart) # Signature(t, PoolStart)}

InitPool ==
    /\ nrows = Rows
    /\ ncols = Cols
    /\ tiles \in PoolGrids
    /\ gstart = PoolStart
    /\ rlines = <<>>
    /\ nworkers \in 1 .. MaxWorkers
    /\ mainpc = "pass1"
    /\ path = {}
    /\ todo = {}
    /\ frames = [w \in 1 .. nworkers |-> IdleFrame]
    /\ tasks = <<>>
    /\ results = <<>>
    /\ wpc = <<>>
    /\ wreq = <<>>
    /\ nstarted = 0
    /\ ntasks = 0
    /\ got = 0
    /\ count = 0
    /\ error = ""
    /\ nsent = 0
    /\ dispatched = <<>>
    /\ taken = <<>>
    /\ recorded = <<>>
    /\ raisedOn = {}
    /\ obstruction = NoObstruction
    /\ pc = "none"
    /\ wstart = gstart
    /\ direction = up
    /\ idx = 1
    /\ last = gstart
    /\ visited = {}
    /\ result = FALSE
    /\ exited = FALSE
    /\ emitted = <<>>
    /\ entries = <<>>

\* Once path = set(walk(grid)) is built and the candidates generator made, a
\* free thread takes the next call: loops starts with visited = set(), walk
\* with direction = up and start = grid.start, and yields start, which
\* pairwise keeps.
PoolCall(w) ==
    /\ mainpc = "pass2"
    /\ frames[w].pc \in {"idle", "done"}
    /\ \E node \in todo :
          /\ todo' = todo \ {node}
          /\ frames' = [frames EXCEPT ![w] = [IdleFrame EXCEPT !.pc = "walking",
                                                               !.node = node]]
    /\ UNCHANGED <<tiles, gstart, nrows, ncols, rlines, wvars, nworkers, mainpc, path, tasks,
                   results, wpc, wreq, nstarted, ntasks, got, count, error, nsent,
                   dispatched, taken, recorded, raisedOn>>

PoolTurnPlaces(w) ==
    /\ frames[w].pc = "walking"
    /\ FrameHasPair(frames[w])
    /\ Blocked(tiles, frames[w].node, FrameCurr(frames[w]))
    /\ frames' = [frames EXCEPT ![w].direction = turn(@),
                                ![w].start = FramePrev(frames[w]),
                                ![w].idx = 1]
    /\ tiles' = tiles \cup {FrameCurr(frames[w])}
    /\ UNCHANGED <<gstart, nrows, ncols, rlines, wvars, evars>>

\* walk in thread w: direction = turn(direction); start = prev; break.
PoolTurn(w) ==
    /\ frames[w].pc = "walking"
    /\ FrameHasPair(frames[w])
    /\ Blocked(tiles, frames[w].node, FrameCurr(frames[w]))
    /\ frames' = [frames EXCEPT ![w].direction = turn(@),
                                ![w].start = FramePrev(frames[w]),
                                ![w].idx = 1]
    /\ UNCHANGED <<tiles, gstart, nrows, ncols, rlines, wvars, evars>>

\* walk in thread w: yield (r, c); pairwise yields the edge and loops tests it.
PoolEmit(w) ==
    /\ frames[w].pc = "walking"
    /\ FrameHasPair(frames[w])
    /\ ~Blocked(tiles, frames[w].node, FrameCurr(frames[w]))
    /\ LET f == frames[w]
           e == PairwiseElem(f.last, FrameCurr(f))
       IN IF e \in VisitedOf(w)
            THEN frames' = [frames EXCEPT ![w].pc = "done",
                                          ![w].result = TRUE,
                                          ![w].last = FrameCurr(f),
                                          ![w].emitted = Append(@, FrameCurr(f)),
                                          ![w].idx = @ + 1]
            ELSE frames' = [frames EXCEPT ![w].visited = @ \cup {e},
                                          ![w].last = FrameCurr(f),
                                          ![w].emitted = Append(@, FrameCurr(f)),
                                          ![w].idx = @ + 1]
    /\ UNCHANGED <<tiles, gstart, nrows, ncols, rlines, wvars, evars>>

\* walk in thread w returns; loops returns False.
PoolExit(w) ==
    /\ frames[w].pc = "walking"
    /\ ~FrameHasPair(frames[w])
    /\ frames' = [frames EXCEPT ![w].pc = "done", ![w].result = FALSE]
    /\ UNCHANGED <<tiles, gstart, nrows, ncols, rlines, wvars, evars>>

NextPool ==
    \/ Pass1Begin \/ Pass1Turn \/ Pass1Emit \/ Pass1Exit
    \/ \E w \in Threads : PoolCall(w) \/ PoolTurn(w) \/ PoolEmit(w) \/ PoolExit(w)

SpecPool == InitPool /\ [][NextPool]_vars

\* C11: under every interleaving of the threads, whatever a thread evaluated
\* before and whatever the other threads are evaluating, a call returns for
\* its candidate what the evaluation of that candidate alone returns, and
\* the visited set of a call holds edges of its own walk only.
C11_CandidateIndependence ==
    \A w \in Threads :
        /\ frames[w].pc = "done" =>
              frames[w].result = (Solve(tiles, gstart, frames[w].node) = "True")
        /\ \A e \in frames[w].visited : e[2] # frames[w].node

C11_Witness ==
    /\ nworkers >= 2
    /\ frames[1].pc = "done"
    /\ frames[2].pc = "walking"
    /\ frames[1].node # frames[2].node
    /\ frames[1].visited \cap frames[2].visited # {}
    /\ todo = {}

\* C20: no step of pass 1 or of any thread's evaluation changes the grid
\* (obstruction map, dimensions, start); a step of a walk changes the frames
\* of its own call only: not its virtual obstruction, not the frames of
\* another call, not path and not the candidates still to come.
C20_GridReadOnly ==
    [][/\ tiles' = tiles
       /\ gstart' = gstart
       /\ nrows' = nrows
       /\ ncols' = ncols
       /\ \A w \in Threads :
             (frames[w].pc = "walking" /\ frames'[w] # frames[w]) =>
                 /\ frames'[w].node = frames[w].node
                 /\ \A v \in Threads \ {w} : frames'[v] = frames[v]
                 /\ path' = path
                 /\ todo' = todo]_vars

C20_Witness ==
    /\ mainpc = "pass2"
    /\ tiles # {}
    /\ nworkers >= 2
    /\ \A w \in {1, 2} :
          /\ frames[w].pc = "walking"
          /\ frames[w].direction # up
          /\ Len(frames[w].emitted) >= 2

\* ------------------------------------ several invocations on the same input
\* loops(pairwise(walk(grid, node))) called with the same grid and the same
\* node (None, or a candidate) in every thread, the calls running interleaved.
InitTwice ==
    /\ nrows = Rows
    /\ ncols = Cols
    /\ tiles \in PoolGrids
    /\ gstart = PoolStart
    /\ rlines = <<>>
    /\ nworkers = MaxWorkers
    /\ \E node \in {NoObstruction} \cup Candidates(tiles, gstart) :
          frames = [w \in 1 .. nworkers |-> [IdleFrame EXCEPT !.pc = "walking", !.node = node]]
    /\ mainpc = "none"
    /\ path = Path(tiles, gstart)
    /\ todo = {}
    /\ tasks = <<>>
    /\ results = <<>>
    /\ wpc = <<>>
    /\ wreq = <<>>
    /\ nstarted = 0
    /\ ntasks = 0
    /\ got = 0
    /\ count = 0
    /\ error = ""
    /\ nsent = 0
    /\ dispatched = <<>>
    /\ taken = <<>>
    /\ recorded = <<>>
    /\ raisedOn = {}
    /\ obstruction = NoObstruction
    /\ pc = "none"
    /\ wstart = gstart
    /\ direction = up
    /\ idx = 1
    /\ last = gstart
    /\ visited = {}
    /\ result = FALSE
    /\ exited = FALSE
    /\ emitted = <<>>
    /\ entries = <<>>

NextTwice == \E w \in Threads : PoolTurn(w) \/ PoolEmit(w) \/ PoolExit(w)

SpecTwice == InitTwice /\ [][NextTwice]_vars

\* C16: invocations of walk on the same (grid, start, virtual obstruction),
\* run interleaved, produce the same sequence of positions: at any moment
\* the positions one has emitted are a prefix of those of the other; two
\* invocations that have emitted the same positions and face the same
\* direction are in the same state; and when they return they have emitted
\* the same sequence and loops returns the same value.
C16_Deterministic ==
    \A v, w \in Threads :
        /\ \A i \in 1 .. Len(frames[v].emitted) :
              i <= Len(frames[w].emitted) => frames[v].emitted[i] = frames[w].emitted[i]
        /\ (frames[v].emitted = frames[w].emitted
            /\ frames[v].direction = frames[w].direction) =>
              /\ frames[v].start = frames[w].start
              /\ frames[v].idx = frames[w].idx
              /\ frames[v].last = frames[w].last
              /\ frames[v].visited = frames[w].visited
        /\ (frames[v].pc = "done" /\ frames[w].pc = "done") =>
              /\ frames[v].emitted = frames[w].emitted
              /\ frames[v].result = frames[w].result

C16_Witness ==
    /\ frames[1].pc = "done"
    /\ frames[2].pc = "walking"
    /\ frames[1].node # NoObstruction
    /\ Len(frames[1].emitted) >= 4
    /\ Len(frames[2].emitted) = 2
    /\ frames[1].direction # frames[2].direction

\* ------------------------------------------- brute force over all free cells
\* has_loop(pairwise(walk(grid, c))) for any free cell c other than the start,
\* on a grid whose unobstructed walk leaves the grid.
FreeCells(t) == Cells \ t

InitProbe ==
    /\ nrows = Rows
    /\ ncols = Cols
    /\ tiles \in {t \in Grids : StartCell \notin t /\ Pass1Returns(t, StartCell)}
    /\ gstart = StartCell
    /\ rlines = <<>>
    /\ obstruction \in FreeCells(tiles) \ {gstart}
    /\ pc = "start"
    /\ wstart = gstart
    /\ direction = up
    /\ idx = 1
    /\ last = gstart
    /\ visited = {}
    /\ result = FALSE
    /\ exited = FALSE
    /\ emitted = <<>>
    /\ entries = <<>>
    /\ frames = <<>>
    /\ nworkers = 0
    /\ mainpc = "none"
    /\ path = Path(tiles, gstart)
    /\ todo = {}
    /\ tasks = <<>>
    /\ results = <<>>
    /\ wpc = <<>>
    /\ wreq = <<>>
    /\ nstarted = 0
    /\ ntasks = 0
    /\ got = 0
    /\ count = 0
    /\ error = ""
    /\ nsent = 0
    /\ dispatched = <<>>
    /\ taken = <<>>
    /\ recorded = <<>>
    /\ raisedOn = {}

SpecProbe == InitProbe /\ [][NextWalk]_vars

\* The count of a search over every free cell other than the start.
BruteCount(t, st) == Cardinality({c \in FreeCells(t) \ {st} : Solve(t, st, c) = "True"})

\* C13: on a grid whose unobstructed walk leaves, a virtual obstruction on a
\* cell that walk never visits is never met (the walk is the unobstructed
\* one, over cells of path only) and the evaluation returns False; has_loop
\* returns True for candidates only, and (on a grid where it ever does) the
\* count over the candidates equals the count over all free cells other than
\* the start.
C13_PruningCorrect ==
    /\ obstruction \notin path =>
          /\ (pc = "walking" /\ HasPair) => Curr # obstruction
          /\ \A i \in DOMAIN emitted : emitted[i] \in path
          /\ pc = "done" => (~result /\ exited)
    /\ (pc = "done" /\ result) =>
          /\ obstruction \in Candidates(tiles, gstart)
          /\ SeqCount(tiles, gstart) = BruteCount(tiles, gstart)

C13_Witness ==
    /\ obstruction \notin path
    /\ pc = "done"
    /\ Len(emitted) >= 3
    /\ \E i \in 1 .. Len(emitted) :
          emitted[i][1] = obstruction[1] /\ emitted[i][2] + 1 = obstruction[2]
    /\ BruteCount(tiles, gstart) >= 1

\* ------------------------------------------ construction of the grid from text
\* The input texts: up to MaxLines lines of up to MaxLineLen characters.
Chars == {".", "#", "^"}

Line == UNION {[1 .. n -> Chars] : n \in 0 .. MaxLineLen}

Texts == UNION {[1 .. n -> Line] : n \in 0 .. MaxLines}

\* from_lines: start = None.
NoStart == <<-1, -1>>

\* Before grid = Grid.from_lines(lines): the lines are read, no grid exists.
InitBuild ==
    /\ rlines \in Texts
    /\ tiles = {}
    /\ gstart = NoStart
    /\ nrows = 0
    /\ ncols = 0
    /\ mainpc = "from_lines"
    /\ path = {}
    /\ todo = {}
    /\ count = 0
    /\ obstruction = NoObstruction
    /\ pc = "none"
    /\ wstart = NoStart
    /\ direction = up
    /\ idx = 1
    /\ last = NoStart
    /\ visited = {}
    /\ result = FALSE
    /\ exited = FALSE
    /\ emitted = <<>>
    /\ entries = <<>>
    /\ frames = <<>>
    /\ nworkers = 0
    /\ tasks = <<>>
    /\ results = <<>>
    /\ wpc = <<>>
    /\ wreq = <<>>
    /\ nstarted = 0
    /\ ntasks = 0
    /\ got = 0
    /\ error = ""
    /\ nsent = 0
    /\ dispatched = <<>>
    /\ taken = <<>>
    /\ recorded = <<>>
    /\ raisedOn = {}

\* grid = Grid.from_lines(lines): the loops over the lines and characters,
\* which use up the iterator, then assert start is not None, then
\* return cls(start, tuple(rows)).
from_lines ==
    /\ mainpc = "from_lines"
    /\ IF FromLines(rlines).ok
         THEN /\ tiles' = FromLines(rlines).tiles
              /\ gstart' = FromLines(rlines).start
              /\ nrows' = FromLines(rlines).nrows
              /\ ncols' = FromLines(rlines).ncols
              /\ wstart' = FromLines(rlines).start
              /\ last' = FromLines(rlines).start
              /\ mainpc' = "pass1"
              /\ error' = error
         ELSE /\ mainpc' = "failed"
              /\ error' = "AssertionError"
              /\ UNCHANGED <<tiles, gstart, nrows, ncols, wstart, last>>
    /\ rlines' = <<>>
    /\ UNCHANGED <<obstruction, pc, direction, idx, visited, result, exited,
                   emitted, entries, frames, nworkers, path, todo, tasks, results,
                   wpc, wreq, nstarted, ntasks, got, count, nsent, dispatched,
                   taken, recorded, raisedOn>>

NextBuild == from_lines

SpecBuild == InitBuild /\ [][NextBuild]_vars

\* A text a grid can be built from: at least one line, every line as long
\* as the first, at least one character per line, and a start marker.
WellFormed(lines) ==
    /\ Len(lines) > 0
    /\ \A r \in DOMAIN lines : Len(lines[r]) = Len(lines[1])
    /\ Len(lines[1]) > 0
    /\ \E q \in Positions(lines) : lines[q[1]][q[2]] = "^"

\* C21: Grid.from_lines returns a Grid only for a text that has a start
\* marker, rows of equal length and non-zero dimensions; for any other text it
\* ends in an error.
C21_FailsFast ==
    [][(mainpc = "from_lines" /\ mainpc' = "pass1") => WellFormed(rlines)]_vars

\* ---------------------------------------------------- Ranges.walk on its own
\* The iterator Ranges.walk(start, direction) returns, consumed element by
\* element, for every size of grid up to Rows x Cols, every cell of it and
\* every direction.  emitted holds the elements produced so far.
InitRay ==
    /\ nrows \in 1 .. Rows
    /\ ncols \in 1 .. Cols
    /\ wstart \in (0 .. (nrows - 1)) \X (0 .. (ncols - 1))
    /\ direction \in {up, right, down, left}
    /\ tiles = {}
    /\ gstart = wstart
    /\ rlines = <<>>
    /\ mainpc = "ranges_walk"
    /\ path = {}
    /\ todo = {}
    /\ count = 0
    /\ obstruction = NoObstruction
    /\ pc = "none"
    /\ idx = 1
    /\ last = wstart
    /\ visited = {}
    /\ result = FALSE
    /\ exited = FALSE
    /\ emitted = <<>>
    /\ entries = <<>>
    /\ frames = <<>>
    /\ nworkers = 0
    /\ tasks = <<>>
    /\ results = <<>>
    /\ wpc = <<>>
    /\ wreq = <<>>
    /\ nstarted = 0
    /\ ntasks = 0
    /\ got = 0
    /\ error = ""
    /\ nsent = 0
    /\ dispatched = <<>>
    /\ taken = <<>>
    /\ recorded = <<>>
    /\ raisedOn = {}

raykeep == <<tiles, gstart, nrows, ncols, rlines, obstruction, pc, wstart, direction,
             last, visited, result, exited, entries, frames, nworkers, path, todo,
             tasks, results, wpc, wreq, nstarted, ntasks, got, count, error, nsent,
             dispatched, taken, recorded, raisedOn>>

\* next() on the generator: the next element of the slice, as a cell.
RayNext ==
    /\ mainpc = "ranges_walk"
    /\ idx <= Len(Ray)
    /\ emitted' = Append(emitted, Ray[idx])
    /\ idx' = idx + 1
    /\ UNCHANGED <<mainpc, raykeep>>

\* next() on the generator when the slice is used up: StopIteration.
RayStop ==
    /\ mainpc = "ranges_walk"
    /\ idx > Len(Ray)
    /\ mainpc' = "ranges_walk_done"
    /\ UNCHANGED <<emitted, idx, raykeep>>

NextRay == RayNext \/ RayStop

SpecRay == InitRay /\ [][NextRay]_vars

\* C22: the elements of Ranges.walk(p, d) begin with p, each next one is the
\* cell one step further in direction d, all are cells of the grid, there are
\* finitely many of them (at most one per row or column), and the last one
\* lies on the edge of the grid in direction d.
C22_RayWalk ==
    mainpc \in {"ranges_walk", "ranges_walk_done"} =>
        /\ Len(emitted) >= 1 => emitted[1] = wstart
        /\ \A i \in 2 .. Len(emitted) : emitted[i] = Ahead(emitted[i - 1], direction)
        /\ \A i \in 1 .. Len(emitted) :
              /\ emitted[i][1] \in 0 .. (nrows - 1)
              /\ emitted[i][2] \in 0 .. (ncols - 1)
        /\ Len(emitted) <= (IF nrows > ncols THEN nrows ELSE ncols)
        /\ mainpc = "ranges_walk_done" =>
              /\ Len(emitted) >= 1
              /\ OnEdge(emitted[Len(emitted)], direction)

C22_Witness ==
    /\ mainpc = "ranges_walk_done"
    /\ direction = up
    /\ Len(emitted) >= 3
    /\ emitted[1] = wstart
    /\ emitted[Len(emitted)][1] = 0
    /\ wstart[1] < nrows - 1

====
